---- MODULE Spec2Model ----
(***************************************************************************)
(* Peer connection negotiation of src/ui/logic/backend.js (lines 218-584): *)
(* two peers, each holding one Connection to the other, exchange signal,   *)
(* ping and pong messages over the signalling hub.  Every handler of the   *)
(* source is an operator on a "world" record W: the Connection (c), the    *)
(* transport instances the side created (peers), the module-level ping     *)
(* registry (pingCount, pings), the messages the handler broadcast (out)   *)
(* and the calls it made (fx).  An action runs one handler to completion,  *)
(* as the single-threaded event loop does.                                 *)
(*                                                                         *)
(* Date.now() is the fixed instant `now`; the code uses recorded instants  *)
(* only through their distance to Date.now(), so the passing of time moves *)
(* every recorded instant one tick into the past (Tick).                   *)
(***************************************************************************)
EXTENDS Integers, Sequences, FiniteSets, TLC

\* ------------------------------------------------------------------ bounds
MaxId == 3        \* the tie-break is tried on peer and conn ids 1..MaxId
MaxInst == 2      \* transport instances one side creates
MaxPings == 2     \* probes one side issues
MaxMsgs == 2      \* messages in flight on the hub
MaxFailed == 2    \* the failedConnection counter saturates here
LivePings == 7    \* probes, instances and messages of the liveness specification
LiveInst == 8
LiveMsgs == 9

\* --------------------------------------------------------------- constants
MAX_CONNECT_TIME == 6000
MAX_CONNECT_TIME_AFTER_ICE_DISCONNECT == 2000
MIN_MAX_CONNECT_TIME_AFTER_SIGNAL == 2000
MAX_FAIL_TIME == 20000
MAX_PING_TIME == 5000

\* The clock: one tick is 1000 ms; an instant further back than Horizon is
\* kept at Horizon (the code only asks whether it is more than MAX_FAIL_TIME
\* back).
TickMs == MAX_CONNECT_TIME_AFTER_ICE_DISCONNECT \div 2
Horizon == MAX_FAIL_TIME + TickMs
Epoch == 2 * Horizon

Sides == {1, 2}
Other(p) == 3 - p
Local == 1
Remote == 2

\* JavaScript's null and undefined; an instant is never 0.
Null == 0
Undefined == -1

VARIABLES
  now,          \* Date.now()
  myPeerId,     \* swarm.myPeerId of each side
  myConnId,     \* swarm.myConnId of each side
  connection,   \* the Connection each side holds to the other
  peers,        \* the transport instances each side created, by _id
  pingCount,    \* module-level pingCount of each side
  pings,        \* the probes of each side whose timer is pending
  hub,          \* messages in flight on the signalling hub
  failedCount,  \* failedConnection events emitted since the caller's last connectPeer
  active,       \* the last tie-break evaluation of each side
  remoteRuns,   \* whether the specification runs the handlers of both sides
  timers,       \* the firing times of the pending setTimeout timers of timeoutPeer
  room          \* the bounds of the specification that runs

vars == <<now, myPeerId, myConnId, connection, peers, pingCount, pings, hub,
          failedCount, active, remoteRuns, timers, room>>

\* ------------------------------------------------------------------- shapes
newConnection == [pc |-> Null, lastFailure |-> Null, timeout |-> FALSE,
                  timeoutEnd |-> 0, timeoutMessage |-> ""]

NoData == [youStart |-> FALSE, first |-> FALSE, from |-> 0, meta |-> 0, id |-> 0]

NoFx == [created |-> 0, connects |-> 0, fails |-> 0, success |-> 0,
         failed |-> 0, forwarded |-> 0, discarded |-> 0, rtt |-> Undefined]

Max2(a, b) == IF a >= b THEN a ELSE b
Max3(a, b, c) == Max2(a, Max2(b, c))
Min2(a, b) == IF a <= b THEN a ELSE b

\* The world a handler of side p runs in.
World(p) == [c |-> connection[p], peers |-> peers[p], pingCount |-> pingCount[p],
             pings |-> pings[p], timers |-> timers[p], out |-> {}, fx |-> NoFx]

Bump(W, f) == [W EXCEPT !.fx[f] = @ + 1]

\* swarm.hub.broadcast(peerId, msg)
broadcast(W, me, type, data, state) ==
  [W EXCEPT !.out = @ \cup {[type |-> type, to |-> Other(me),
                             yourConnId |-> myConnId[Other(me)],
                             data |-> data, state |-> state]}]

\* ----------------------------------------------------------------- tie-break
iAmActiveGe(mp, mc, peerId, connId) ==
  mp >= peerId \/ (mp = peerId /\ mc > connId)

iAmActive(mp, mc, peerId, connId) ==
  mp > peerId \/ (mp = peerId /\ mc > connId)

Active(p) == iAmActive(myPeerId[p], myConnId[p], myPeerId[Other(p)], myConnId[Other(p)])

\* ------------------------------------------------------------------ timeouts
\* clearTimeout(connection.timeout): the handle names the timer that fires at
\* timeoutEnd
clearTimeout(W) ==
  [W EXCEPT !.timers = IF W.c.timeout THEN @ \ {W.c.timeoutEnd} ELSE @]

stopTimeoutKeepsTimer(W) ==
  [W EXCEPT !.c.timeout = FALSE, !.c.timeoutMessage = "", !.c.timeoutEnd = 0]

stopTimeout(W) ==
  [clearTimeout(W) EXCEPT !.c.timeout = FALSE, !.c.timeoutMessage = "",
                          !.c.timeoutEnd = 0]

timeoutPeerResets(W, t, delay, message) ==
  LET d == Max3(0, W.c.timeoutEnd - t, delay)
  IN [clearTimeout(W) EXCEPT
        !.c.lastFailure = t,
        !.c.timeoutEnd = t + d,
        !.c.timeoutMessage = IF message # "" THEN message ELSE @,
        !.c.timeout = TRUE,
        !.timers = @ \cup {t + d}]

timeoutPeerShortens(W, t, delay, message) ==
  LET d == Max2(0, delay)
  IN [clearTimeout(W) EXCEPT
        !.c.lastFailure = IF @ # Null THEN @ ELSE t,
        !.c.timeoutEnd = t + d,
        !.c.timeoutMessage = IF message # "" THEN message ELSE @,
        !.c.timeout = TRUE,
        !.timers = @ \cup {t + d}]

timeoutPeerKeepsWindow(W, t, delay, message) ==
  LET d == Max3(0, W.c.timeoutEnd - t, delay)
  IN [clearTimeout(W) EXCEPT
        !.c.timeoutEnd = t + d,
        !.c.timeoutMessage = IF message # "" THEN message ELSE @,
        !.c.timeout = TRUE,
        !.timers = @ \cup {t + d}]

timeoutPeer(W, t, delay, message) ==
  LET d == Max3(0, W.c.timeoutEnd - t, delay)
  IN [clearTimeout(W) EXCEPT
        !.c.lastFailure = IF @ # Null THEN @ ELSE t,
        !.c.timeoutEnd = t + d,
        !.c.timeoutMessage = IF message # "" THEN message ELSE @,
        !.c.timeout = TRUE,
        !.timers = @ \cup {t + d}]

addToTimeoutAlways(W, t, delay) == timeoutPeer(W, t, delay, "")

addToTimeout(W, t, delay) ==
  IF W.c.timeout THEN timeoutPeer(W, t, delay, "") ELSE W

handlePeerSuccess(W) ==
  stopTimeout([Bump(W, "success") EXCEPT !.c.lastFailure = Null])

\* ---------------------------------------------------------------- the prober
\* pings holds a probe from ping() until its timer fires; the Map of the source
\* holds those of them that are not resolved.
ping(W, me, t) ==
  LET id == W.pingCount
      W1 == [W EXCEPT !.pingCount = @ + 1,
                      !.pings = @ \cup {[id |-> id, start |-> t, resolved |-> FALSE]}]
  IN broadcast(W1, me, "ping", [NoData EXCEPT !.id = id], FALSE)

deathPing(W, me, t) == ping(W, me, t)

\* ------------------------------------------------------------- the transport
NewPeer(initiator) ==
  [initiator |-> initiator, garbage |-> FALSE, destroyed |-> FALSE, from |-> 0,
   didSignal |-> FALSE, remoteStreamIds |-> 0]

\* peer.garbage = true; peer.destroy()
DestroyAsGarbage(W) ==
  IF W.c.pc # Null
  THEN [W EXCEPT !.peers[W.c.pc].garbage = TRUE, !.peers[W.c.pc].destroyed = TRUE]
  ELSE W

createPeerKeepsOld(W, initiator) ==
  [Bump(W, "created") EXCEPT !.peers = Append(@, NewPeer(initiator)),
                             !.c.pc = Len(W.peers) + 1]

createPeer(W, initiator) ==
  LET W1 == Bump(DestroyAsGarbage(W), "created")
  IN [W1 EXCEPT !.peers = Append(@, NewPeer(initiator)),
                !.c.pc = Len(W.peers) + 1]

\* ---------------------------------------------------------------- connectPeer
connectPeerAlwaysInitiates(W, me, t) ==
  createPeer(timeoutPeer(deathPing(Bump(W, "connects"), me, t), t,
                         MAX_CONNECT_TIME, ""), TRUE)

connectPeerKeepsOld(W, me, t) ==
  LET W1 == deathPing(Bump(W, "connects"), me, t)
      W2 == timeoutPeer(W1, t, MAX_CONNECT_TIME, "")
  IN IF Active(me)
     THEN createPeer(W2, TRUE)
     ELSE broadcast(W2, me, "signal", [NoData EXCEPT !.youStart = TRUE], TRUE)

connectPeer(W, me, t) ==
  LET W1 == deathPing(Bump(W, "connects"), me, t)
      W2 == timeoutPeer(W1, t, MAX_CONNECT_TIME, "")
  IN IF Active(me)
     THEN createPeer(W2, TRUE)
     ELSE DestroyAsGarbage(
            broadcast(W2, me, "signal", [NoData EXCEPT !.youStart = TRUE], TRUE))

\* ------------------------------------------------------------- failure policy
handlePeerFailGe(W, me, t, forcedFail) ==
  LET W1 == stopTimeout(Bump(W, "fails"))
      W2 == [W1 EXCEPT !.c.lastFailure = IF @ # Null THEN @ ELSE t]
      failTime == t - W2.c.lastFailure
  IN IF forcedFail \/ failTime >= MAX_FAIL_TIME
     THEN Bump(W2, "failed")
     ELSE connectPeer(W2, me, t)

handlePeerFailNeverGivesUp(W, me, t, forcedFail) ==
  LET W1 == stopTimeout(Bump(W, "fails"))
      W2 == [W1 EXCEPT !.c.lastFailure = IF @ # Null THEN @ ELSE t]
  IN IF forcedFail
     THEN Bump(W2, "failed")
     ELSE connectPeer(W2, me, t)

handlePeerFail(W, me, t, forcedFail) ==
  LET W1 == stopTimeout(Bump(W, "fails"))
      W2 == [W1 EXCEPT !.c.lastFailure = IF @ # Null THEN @ ELSE t]
      failTime == t - W2.c.lastFailure
  IN IF forcedFail \/ failTime > MAX_FAIL_TIME
     THEN Bump(W2, "failed")
     ELSE connectPeer(W2, me, t)

\* the continuation deathPing attaches to the probe: ms is falsy when it is
\* undefined (timed out) and when it is 0
deathPingThenUnforced(W, me, t, ms) ==
  IF ms # Undefined /\ ms # 0 THEN W ELSE handlePeerFail(W, me, t, FALSE)

deathPingThen(W, me, t, ms) ==
  IF ms # Undefined /\ ms # 0 THEN W ELSE handlePeerFail(W, me, t, TRUE)

\* ---------------------------------------------------------------- handleSignal
addPeerMetaData(W, peer, meta) ==
  IF meta = 0 THEN W ELSE [W EXCEPT !.peers[peer].remoteStreamIds = meta]

\* peer.signal(data): the transport takes the payload
PeerSignal(W, peer, data) == Bump(W, "forwarded")

\* peer.from !== from: the signal is of another instance of the remote
WrongInstanceNever(peerFrom, from) == FALSE

WrongInstance(peerFrom, from) == peerFrom # from

handleSignalDataNoReconnect(W, me, t, data) ==
    LET iAm == Active(me)
        W1 == IF data.first /\ ~iAm
              THEN LET Wc == createPeer(W, FALSE)
                   IN [Wc EXCEPT !.peers[Wc.c.pc].from = data.from]
              ELSE W
        peer == W1.c.pc
    IN IF peer = Null \/ W1.peers[peer].destroyed
       THEN Bump(W1, "discarded")
       ELSE
         LET W2 == IF W1.peers[peer].from = 0
                   THEN [W1 EXCEPT !.peers[peer].from = data.from]
                   ELSE W1
         IN IF WrongInstance(W2.peers[peer].from, data.from)
            THEN Bump(W2, "discarded")
            ELSE
              LET W3 == PeerSignal(addPeerMetaData(W2, peer, data.meta), peer, data)
              IN IF ~(data.first /\ ~iAm)
                 THEN addToTimeout(W3, t, MIN_MAX_CONNECT_TIME_AFTER_SIGNAL)
                 ELSE W3

\* the negotiation branch of handleSignal
handleSignalData(W, me, t, data) ==
    LET iAm == Active(me)
        W1 == IF data.first /\ ~iAm
              THEN LET Wc == createPeer(W, FALSE)
                   IN [Wc EXCEPT !.peers[Wc.c.pc].from = data.from]
              ELSE W
        peer == W1.c.pc
    IN IF peer = Null \/ W1.peers[peer].destroyed
       THEN connectPeer(W1, me, t)
       ELSE
         LET W2 == IF W1.peers[peer].from = 0
                   THEN [W1 EXCEPT !.peers[peer].from = data.from]
                   ELSE W1
         IN IF WrongInstance(W2.peers[peer].from, data.from)
            THEN Bump(W2, "discarded")
            ELSE
              LET W3 == PeerSignal(addPeerMetaData(W2, peer, data.meta), peer, data)
              IN IF ~(data.first /\ ~iAm)
                 THEN addToTimeout(W3, t, MIN_MAX_CONNECT_TIME_AFTER_SIGNAL)
                 ELSE W3

handleSignalIgnoresYouStart(W, me, t, data) ==
  IF data.youStart
  THEN W
  ELSE handleSignalData(W, me, t, data)

handleSignalOverrides(W, me, t, data) ==
  IF data.youStart
  THEN createPeer(W, TRUE)
  ELSE handleSignalData(W, me, t, data)

handleSignal(W, me, t, data) ==
  IF data.youStart
  THEN IF W.c.pc = Null THEN createPeer(W, TRUE) ELSE W
  ELSE handleSignalData(W, me, t, data)

\* ------------------------------------------------- callbacks createPeer wires
onSignalAlwaysFirst(W, me, i) ==
  LET data == [NoData EXCEPT !.meta = i, !.from = i, !.first = TRUE]
      W1 == [W EXCEPT !.peers[i].didSignal = TRUE]
  IN broadcast(W1, me, "signal", data, TRUE)

\* peer.on('signal'): peer i of side me has a local payload ready
onSignal(W, me, i) ==
  LET first == ~W.peers[i].didSignal
      data == [NoData EXCEPT !.meta = i, !.from = i, !.first = first]
      W1 == [W EXCEPT !.peers[i].didSignal = TRUE]
  IN broadcast(W1, me, "signal", data, first)

\* peer.on('connect')
onConnect(W, i) == handlePeerSuccess(W)

\* peer.on('iceStateChange')
onIceStateChange(W, me, t, i, state) ==
  LET W1 == IF state = "disconnected"
            THEN timeoutPeer(deathPing(W, me, t), t,
                             MAX_CONNECT_TIME_AFTER_ICE_DISCONNECT,
                             "peer timed out after ice disconnect")
            ELSE W
  IN IF state \in {"connected", "completed"} THEN handlePeerSuccess(W1) ELSE W1

\* peer.on('error'): logs unless the peer is garbage
onError(W, i) == W

\* peer.on('close')
onClose(W, me, t, i) ==
  IF W.peers[i].garbage THEN W ELSE handlePeerFail(W, me, t, FALSE)

\* ------------------------------------------------------------- ping and pong
\* setTimeout callback of ping(): promise.resolve(undefined); pings.delete(id)
pingTimer(W, me, t, pr) ==
  LET W1 == [W EXCEPT !.pings = @ \ {pr}]
  IN IF pr.resolved THEN W1 ELSE deathPingThen(W1, me, t, Undefined)

handlePong(W, me, t, id) ==
  IF \E pr \in W.pings : pr.id = id /\ ~pr.resolved
  THEN LET pr == CHOOSE x \in W.pings : x.id = id
           ms == t - pr.start
           W1 == [W EXCEPT !.pings = (@ \ {pr}) \cup {[pr EXCEPT !.resolved = TRUE]},
                           !.fx.rtt = ms]
       IN deathPingThen(W1, me, t, ms)
  ELSE W

handlePing(W, me, id) == broadcast(W, me, "pong", [NoData EXCEPT !.id = id], FALSE)

\* -------------------------------------------------------------------- actions
\* The hub carries a message when the specification runs its receiver: the
\* remote's handlePing always, the remote's handleSignal when both sides run.
Relayed(out) == {m \in out : remoteRuns \/ m.type # "signal"}

\* The model's bounds: what a handler may leave behind.
Fits(W, hub1) ==
  /\ W.pingCount <= room.pings
  /\ Len(W.peers) <= room.inst
  /\ Cardinality(hub1 \cup Relayed(W.out)) <= room.msgs

\* The handler's result becomes the state of side p.
Commit(p, W, hub1, reset) ==
  /\ Fits(W, hub1)
  /\ connection' = [connection EXCEPT ![p] = W.c]
  /\ peers' = [peers EXCEPT ![p] = W.peers]
  /\ pingCount' = [pingCount EXCEPT ![p] = W.pingCount]
  /\ pings' = [pings EXCEPT ![p] = W.pings]
  /\ timers' = [timers EXCEPT ![p] = W.timers]
  /\ hub' = hub1 \cup Relayed(W.out)
  /\ failedCount' = [failedCount EXCEPT ![p] =
                       IF reset THEN 0 ELSE Min2(MaxFailed, @ + W.fx.failed)]
  /\ UNCHANGED <<now, myPeerId, myConnId, active, remoteRuns, room>>

\* The caller (peer discovery, or its own retry) calls connectPeer.
CallConnectPeer(p) ==
  /\ p \in Sides
  /\ Commit(p, connectPeer(World(p), p, now), hub, TRUE)

\* The hub delivers message m to side p.
SignalStep(p, m) ==
  /\ m.to = p /\ m.type = "signal"
  /\ Commit(p, handleSignal(World(p), p, now, m.data), hub \ {m}, FALSE)

DeliverSignal(p) == \E m \in hub : SignalStep(p, m)

DeliverPing(p) ==
  \E m \in hub :
    /\ m.to = p /\ m.type = "ping"
    /\ Commit(p, handlePing(World(p), p, m.data.id), hub \ {m}, FALSE)

PongStep(p, m) ==
  /\ m.to = p /\ m.type = "pong"
  /\ Commit(p, handlePong(World(p), p, now, m.data.id), hub \ {m}, FALSE)

DeliverPong(p) == \E m \in hub : PongStep(p, m)

\* The remote answers ping m of side p (its handlePing keeps no state) and the
\* hub delivers the pong to side p.
PingPongStep(p, m) ==
  /\ m.to = Other(p) /\ m.type = "ping"
  /\ \E r \in handlePing(World(Other(p)), Other(p), m.data.id).out :
       Commit(p, handlePong(World(p), p, now, r.data.id), hub \ {m}, FALSE)

PingPong(p) == \E m \in hub : PingPongStep(p, m)

\* The hub is best effort: a message may never arrive.
LoseMessage ==
  \E m \in hub :
    /\ hub' = hub \ {m}
    /\ UNCHANGED <<now, myPeerId, myConnId, connection, peers, pingCount, pings,
                   failedCount, active, remoteRuns, timers, room>>

\* The signals the other side's code can have broadcast to side p: youStart from
\* its connectPeer when it is not active (lines 261-268), and the payloads of its
\* transport instances (lines 363-388), a receiver's only after side p sent a
\* first signal that created it.
RemoteData(p) ==
  {[NoData EXCEPT !.youStart = TRUE] : x \in {1} \cap {IF Active(p) THEN 1 ELSE 0}}
  \cup
  {[NoData EXCEPT !.first = f, !.from = i, !.meta = i] :
     f \in {b \in BOOLEAN :
              Active(p) => \E k \in 1..Len(peers[p]) : peers[p][k].didSignal},
     i \in 1..MaxInst}

\* The hub delivers to side p a signal of the other side, whose own state is
\* left out.
RemoteSignalStep(p, data) ==
  Commit(p, handleSignal(World(p), p, now, data), hub, FALSE)

RemoteSignal(p) == \E data \in RemoteData(p) : RemoteSignalStep(p, data)

\* A timer timeoutPeer set fires: it is no longer pending, and its callback runs
\* handlePeerFail(connection).
DeadlineDue(p) == \E e \in timers[p] : now >= e

Fired(W, e) == [W EXCEPT !.timers = @ \ {e}]

DeadlineStep(p, e) ==
  /\ now >= e
  /\ Commit(p, handlePeerFail(Fired(World(p), e), p, now, FALSE), hub, FALSE)

DeadlineFire(p) == \E e \in timers[p] : DeadlineStep(p, e)

\* The MAX_PING_TIME timer of probe pr fires.
PingDue(pr) == now >= pr.start + MAX_PING_TIME

PingTimeoutStep(p, pr) ==
  /\ pr \in pings[p]
  /\ PingDue(pr)
  /\ Commit(p, pingTimer(World(p), p, now, pr), hub, FALSE)

PingTimeout(p) == \E pr \in pings[p] : PingTimeoutStep(p, pr)

\* What the transport does (simple-peer-light, outside the source): it produces
\* local payloads while it lives; it emits close when destroy() was called on it
\* and when it fails by itself; events already scheduled still arrive after
\* destroy().
MaySignal(x) == ~x.destroyed

MayClose(x) == x.garbage \/ ~x.destroyed

Insts(p) == 1..Len(peers[p])

TransportSignal(p) ==
  \E i \in Insts(p) :
    /\ MaySignal(peers[p][i])
    /\ Commit(p, onSignal(World(p), p, i), hub, FALSE)

ConnectStep(p, i) == Commit(p, onConnect(World(p), i), hub, FALSE)

TransportConnect(p) == \E i \in Insts(p) : ConnectStep(p, i)

IceStates == {"connected", "completed", "disconnected"}

IceStep(p, i, state) ==
  Commit(p, onIceStateChange(World(p), p, now, i, state), hub, FALSE)

TransportIce(p) == \E i \in Insts(p), state \in IceStates : IceStep(p, i, state)

ErrorStep(p, i) == Commit(p, onError(World(p), i), hub, FALSE)

TransportError(p) == \E i \in Insts(p) : ErrorStep(p, i)

\* close: the transport is gone (destroyed) when it emits close
Closed(W, i) == [W EXCEPT !.peers[i].destroyed = TRUE]

CloseStep(p, i) ==
  /\ MayClose(peers[p][i])
  /\ Commit(p, onClose(Closed(World(p), i), p, now, i), hub, FALSE)

TransportClose(p) == \E i \in Insts(p) : CloseStep(p, i)

\* Time passes; a timer that is due fires before the clock moves on.
TimerDue(p) == DeadlineDue(p) \/ \E pr \in pings[p] : PingDue(pr)

Earlier(t) == Max2(t - TickMs, now - Horizon)

\* Nothing recorded depends on the clock when no timer is pending and no
\* failure window is open.
Timed(p) ==
  \/ connection[p].lastFailure # Null
  \/ connection[p].timeout
  \/ pings[p] # {}
  \/ timers[p] # {}

Tick ==
  /\ \E p \in Sides : Timed(p)
  /\ \A p \in Sides : ~TimerDue(p)
  /\ connection' = [p \in Sides |->
       [connection[p] EXCEPT
          !.lastFailure = IF @ = Null THEN Null ELSE Earlier(@),
          !.timeoutEnd = IF connection[p].timeout THEN @ - TickMs ELSE @]]
  /\ pings' = [p \in Sides |-> {[pr EXCEPT !.start = @ - TickMs] : pr \in pings[p]}]
  /\ timers' = [p \in Sides |-> {e - TickMs : e \in timers[p]}]
  /\ UNCHANGED <<now, myPeerId, myConnId, peers, pingCount, hub, failedCount,
                 active, remoteRuns, room>>

\* Each side evaluates the tie-break about the other.
EvaluateTieBreak(p) ==
  /\ active' = [active EXCEPT ![p] = IF Active(p) THEN "yes" ELSE "no"]
  /\ UNCHANGED <<now, myPeerId, myConnId, connection, peers, pingCount, pings,
                 hub, failedCount, remoteRuns, timers, room>>

\* ------------------------------------------------------------ specifications
\* (myPeerId, myConnId) of side 1 and of side 2: different identities, and one
\* identity with two attempts.
IdConfigs == { <<2, 1, 1, 1>>, <<1, 1, 1, 2>> }

InitRest ==
  /\ now = Epoch
  /\ connection = [p \in Sides |-> newConnection]
  /\ peers = [p \in Sides |-> <<>>]
  /\ pingCount = [p \in Sides |-> 0]
  /\ pings = [p \in Sides |-> {}]
  /\ timers = [p \in Sides |-> {}]
  /\ hub = {}
  /\ failedCount = [p \in Sides |-> 0]
  /\ active = [p \in Sides |-> "unknown"]

Room == [pings |-> MaxPings, inst |-> MaxInst, msgs |-> MaxMsgs]

InitIds ==
  \E c \in IdConfigs :
    /\ myPeerId = [p \in Sides |-> IF p = 1 THEN c[1] ELSE c[3]]
    /\ myConnId = [p \in Sides |-> IF p = 1 THEN c[2] ELSE c[4]]

Init == InitIds /\ InitRest /\ remoteRuns = FALSE /\ room = Room

\* One side against the hub and the clock; the other side answers pings and
\* sends what its code can send.
Next ==
  \/ CallConnectPeer(Local)
  \/ RemoteSignal(Local)
  \/ PingPong(Local)
  \/ LoseMessage
  \/ DeadlineFire(Local)
  \/ PingTimeout(Local)
  \/ TransportSignal(Local)
  \/ TransportConnect(Local)
  \/ TransportIce(Local)
  \/ TransportError(Local)
  \/ TransportClose(Local)
  \/ Tick

Spec == Init /\ [][Next]_vars

\* The remote has vanished: no pong and no signal ever arrives.
NextSilent ==
  \/ CallConnectPeer(Local)
  \/ LoseMessage
  \/ DeadlineFire(Local)
  \/ PingTimeout(Local)
  \/ TransportSignal(Local)
  \/ TransportConnect(Local)
  \/ TransportIce(Local)
  \/ TransportError(Local)
  \/ TransportClose(Local)
  \/ Tick

SpecSilent == Init /\ [][NextSilent]_vars

\* One connectPeer of the caller, finitely many inbound signals (those in flight
\* at the start), a remote that may answer pings, a transport that may connect
\* and may close early on; timers fire when due and the clock moves on.  A
\* message the hub never delivers stays in flight.
LiveSignals ==
  {[type |-> "signal", to |-> Local, yourConnId |-> myConnId[Local],
    data |-> [NoData EXCEPT !.first = f, !.from = 1, !.meta = 1], state |-> f] :
     f \in BOOLEAN}

InitLive ==
  /\ InitIds
  /\ now = Epoch
  /\ connection = [p \in Sides |-> newConnection]
  /\ peers = [p \in Sides |-> <<>>]
  /\ pingCount = [p \in Sides |-> 0]
  /\ pings = [p \in Sides |-> {}]
  /\ timers = [p \in Sides |-> {}]
  /\ hub \in SUBSET LiveSignals
  /\ failedCount = [p \in Sides |-> 0]
  /\ active = [p \in Sides |-> "unknown"]
  /\ remoteRuns = FALSE
  /\ room = [pings |-> LivePings, inst |-> LiveInst, msgs |-> LiveMsgs]

LiveConnect == pingCount[Local] = 0 /\ CallConnectPeer(Local)

\* The transport acts before the first retry; the probes of the retries that
\* follow stay within LivePings.
LiveClose == pingCount[Local] <= 1 /\ TransportClose(Local)

LiveSuccess == pingCount[Local] <= 1 /\ TransportConnect(Local)

NextLive ==
  \/ LiveConnect
  \/ DeliverSignal(Local)
  \/ PingPong(Local)
  \/ DeadlineFire(Local)
  \/ PingTimeout(Local)
  \/ LiveSuccess
  \/ LiveClose
  \/ Tick

SpecLive ==
  /\ InitLive
  /\ [][NextLive]_vars
  /\ WF_vars(Tick)
  /\ WF_vars(DeadlineFire(Local))
  /\ WF_vars(PingTimeout(Local))

\* Both sides run the protocol against each other within one clock instant.
InitPair == InitIds /\ InitRest /\ remoteRuns = TRUE /\ room = Room

NextPair ==
  \/ \E p \in Sides : CallConnectPeer(p)
  \/ \E p \in Sides : DeliverSignal(p)
  \/ \E p \in Sides : DeliverPing(p)
  \/ \E p \in Sides : DeliverPong(p)
  \/ LoseMessage
  \/ \E p \in Sides : TransportSignal(p)
  \/ \E p \in Sides : TransportClose(p)

SpecPair == InitPair /\ [][NextPair]_vars

\* The tie-break on every pair of (peerId, connId).
InitTie ==
  /\ myPeerId \in [Sides -> 1..MaxId]
  /\ myConnId \in [Sides -> 1..MaxId]
  /\ InitRest
  /\ remoteRuns = FALSE
  /\ room = Room

NextTie == \E p \in Sides : EvaluateTieBreak(p)

SpecTie == InitTie /\ [][NextTie]_vars

\* ------------------------------------------------------------------- claims
Elapsed(p) == IF connection[p].lastFailure = Null THEN 0
              ELSE now - connection[p].lastFailure

Garbage(p) == {i \in Insts(p) : peers[p][i].garbage}

\* What a handler run from the present state leaves of side p.
SameSide(p, W) ==
  /\ W.c = connection[p]
  /\ W.peers = peers[p]
  /\ W.pingCount = pingCount[p]
  /\ W.pings = pings[p]
  /\ W.timers = timers[p]

\* C1: no callback of a transport instance marked garbage (connect, ICE state
\* connected/completed/disconnected, close, error) makes a success or a failure
\* transition on its Connection: lastFailure and the deadline stay as they are
\* and no probe is issued.
C1_GarbageCallbacksAreNoOps ==
  \A i \in Garbage(Local) :
    /\ SameSide(Local, onConnect(World(Local), i))
    /\ \A state \in IceStates :
         SameSide(Local, onIceStateChange(World(Local), Local, now, i, state))
    /\ SameSide(Local, onClose(Closed(World(Local), i), Local, now, i))
    /\ SameSide(Local, onError(World(Local), i))

\* C2: for two sides with different (peerId, connId), the tie-break evaluated by
\* each side about the other makes exactly one of them active.
C2_TieBreakComplement ==
  ( /\ <<myPeerId[1], myConnId[1]>> # <<myPeerId[2], myConnId[2]>>
    /\ active[1] # "unknown"
    /\ active[2] # "unknown" )
  => active[1] # active[2]

C2_Witness ==
  /\ myPeerId[1] = myPeerId[2]
  /\ myConnId[1] > myConnId[2]
  /\ active[1] = "yes"
  /\ active[2] = "no"

\* C3: the non-active side never holds an initiator instance (every instance it
\* created is a receiver), so the two sides never both hold a live initiator.
LiveInitiator(p) ==
  \E i \in Insts(p) : peers[p][i].initiator /\ ~peers[p][i].garbage

C3_OnlyActiveInitiates ==
  /\ \A p \in Sides : ~Active(p) => \A i \in Insts(p) : ~peers[p][i].initiator
  /\ ~(LiveInitiator(1) /\ LiveInitiator(2))

C3_Witness ==
  \E p \in Sides :
    /\ Active(p)
    /\ Len(peers[p]) = 2
    /\ LiveInitiator(p)
    /\ Len(peers[Other(p)]) = 2
    /\ ~peers[Other(p)][2].initiator
    /\ peers[Other(p)][2].from = 2

\* C4: when both sides call connectPeer, the active side creates an initiator
\* inside its own connectPeer; the non-active side creates none there and
\* broadcasts exactly one youStart signal; a youStart that reaches a side holding
\* an instance leaves that instance in place; and the non-active side gets a new
\* instance exactly from a first signal, as a receiver recording the signal's from.
YouStarts(out) == {m \in out : m.type = "signal" /\ m.data.youStart}

C4_ConnectPeerRoles ==
  \A p \in Sides :
    LET W == connectPeer(World(p), p, now)
    IN IF Active(p)
       THEN /\ W.fx.created = 1
            /\ W.c.pc = Len(peers[p]) + 1
            /\ W.peers[W.c.pc].initiator
            /\ ~W.peers[W.c.pc].garbage
            /\ YouStarts(W.out) = {}
       ELSE /\ W.fx.created = 0
            /\ Len(W.peers) = Len(peers[p])
            /\ Cardinality(YouStarts(W.out)) = 1
            /\ \A m \in YouStarts(W.out) : m.to = Other(p)

C4_YouStartKeepsInstance ==
  \A p \in Sides : \A m \in hub :
    (m.to = p /\ m.type = "signal" /\ m.data.youStart /\ connection[p].pc # Null)
    => LET W == handleSignal(World(p), p, now, m.data)
       IN SameSide(p, W) /\ W.fx.created = 0 /\ W.out = {}

C4_FirstCreatesReceiver ==
  \A p \in Sides : \A m \in hub :
    (m.to = p /\ m.type = "signal" /\ ~m.data.youStart /\ ~Active(p))
    => LET W == handleSignal(World(p), p, now, m.data)
       IN IF m.data.first
          THEN /\ W.fx.created = 1
               /\ W.c.pc = Len(peers[p]) + 1
               /\ ~W.peers[W.c.pc].initiator
               /\ W.peers[W.c.pc].from = m.data.from
          ELSE W.fx.created = 0 /\ Len(W.peers) = Len(peers[p])

\* a step of the non-active side that adds an instance is the delivery of a
\* first signal
C4_OnlyFirstCreates ==
  \A p \in Sides :
    (~Active(p) /\ Len(peers'[p]) > Len(peers[p]))
    => \E m \in hub : m.data.first /\ ~m.data.youStart /\ SignalStep(p, m)

C4_BothCallConnectPeer ==
  /\ [](C4_ConnectPeerRoles /\ C4_YouStartKeepsInstance /\ C4_FirstCreatesReceiver)
  /\ [][C4_OnlyFirstCreates]_vars

C4_Witness ==
  \E p \in Sides :
    /\ Active(p)
    /\ pingCount[p] = 1 /\ pingCount[Other(p)] = 1
    /\ Len(peers[p]) = 1 /\ peers[p][1].initiator /\ peers[p][1].from = 1
    /\ Len(peers[Other(p)]) = 1
    /\ ~peers[Other(p)][1].initiator /\ peers[Other(p)][1].from = 1
    /\ \E m \in hub : m.to = p /\ m.type = "signal" /\ m.data.youStart

\* C5: each Connection has at most one transport instance that is not marked
\* garbage, the one connection.pc names; every instance it replaced was marked
\* garbage and destroyed.
C5_OneLiveInstance ==
  \A p \in Sides :
    /\ Cardinality(Insts(p) \ Garbage(p)) <= 1
    /\ \A i \in Insts(p) :
         IF i = connection[p].pc
         THEN peers[p][i].garbage => peers[p][i].destroyed
         ELSE peers[p][i].garbage /\ peers[p][i].destroyed

C5_Witness ==
  /\ Len(peers[Local]) = 2
  /\ connection[Local].pc = 2
  /\ peers[Local][1].garbage /\ peers[Local][1].destroyed
  /\ ~peers[Local][2].garbage /\ ~peers[Local][2].destroyed

\* C6: a negotiation payload whose from differs from the from recorded on the
\* current transport instance is discarded and changes no state: nothing is
\* forwarded to the transport, no metadata applied, no instance replaced or
\* destroyed, the deadline is unchanged and connectPeer is not re-entered.
WrongFrom(p, data) ==
  /\ ~data.youStart
  /\ connection[p].pc # Null
  /\ peers[p][connection[p].pc].from # 0
  /\ peers[p][connection[p].pc].from # data.from

Discards(p, W) ==
  /\ SameSide(p, W)
  /\ W.out = {}
  /\ W.fx = [NoFx EXCEPT !.discarded = 1]

\* as claimed: for every such payload, on the active and on the non-active side
C6_EveryWrongFromDiscarded ==
  \A data \in RemoteData(Local) :
    WrongFrom(Local, data)
    => Discards(Local, handleSignal(World(Local), Local, now, data))

\* as the code has it: unless the payload is a first signal received on the
\* non-active side (which replaces the instance by a new receiver) or the current
\* instance is destroyed (which re-enters connectPeer)
C6_WrongFromDiscarded ==
  \A data \in RemoteData(Local) :
    ( /\ WrongFrom(Local, data)
      /\ ~(data.first /\ ~Active(Local))
      /\ ~peers[Local][connection[Local].pc].destroyed )
    => Discards(Local, handleSignal(World(Local), Local, now, data))

C6_Witness ==
  \E data \in RemoteData(Local) :
    /\ WrongFrom(Local, data)
    /\ ~(data.first /\ ~Active(Local))
    /\ ~peers[Local][connection[Local].pc].destroyed
    /\ ~Active(Local)
    /\ connection[Local].timeout
    /\ connection[Local].timeoutEnd - now < MIN_MAX_CONNECT_TIME_AFTER_SIGNAL

\* C7: with no connectPeer of the caller in between, failedConnection is emitted
\* at most once for a Connection.
C7_FailedConnectionOnce == \A p \in Sides : failedCount[p] <= 1

\* C8: the timer of a probe no pong resolved fires MAX_PING_TIME after the ping
\* and runs handlePeerFail(connection, true): failedConnection is emitted and
\* connectPeer is not called, whatever the elapsed failure time.
C8_ProbeTimeoutIsTerminal ==
  \A pr \in pings[Local] :
    /\ now - pr.start <= MAX_PING_TIME
    /\ (~pr.resolved /\ PingDue(pr))
       => LET W == pingTimer(World(Local), Local, now, pr)
          IN /\ now - pr.start = MAX_PING_TIME
             /\ W.fx.fails = 1
             /\ W.fx.failed = 1
             /\ W.fx.connects = 0
             /\ W.pingCount = pingCount[Local]
             /\ W.out = {}

C8_Witness ==
  /\ failedCount[Local] = 1
  /\ pingCount[Local] = 1
  /\ pings[Local] = {}
  /\ Elapsed(Local) = MAX_PING_TIME
  /\ ~connection[Local].timeout
  /\ \E m \in hub : m.type = "ping" /\ m.data.id = 0

\* C9: a pong that arrives d ms after its ping, 0 <= d < MAX_PING_TIME, resolves
\* the probe with round-trip time d: handlePeerFail does not run, and the later
\* expiry of the probe's timer changes nothing but the registry.
C9_PongResolvesProbe ==
  \A m \in hub : \A pr \in pings[Local] :
    ( /\ m.type = "ping" /\ m.to = Remote /\ m.data.id = pr.id
      /\ ~pr.resolved
      /\ now - pr.start >= 0 /\ now - pr.start < MAX_PING_TIME )
    => LET W == handlePong(World(Local), Local, now, pr.id)
           done == [pr EXCEPT !.resolved = TRUE]
           W2 == pingTimer([W EXCEPT !.fx = NoFx, !.out = {}], Local, now, done)
       IN /\ W.fx.rtt = now - pr.start
          /\ W.fx.fails = 0
          /\ W.fx.failed = 0
          /\ done \in W.pings
          /\ W2.fx = NoFx /\ W2.out = {} /\ W2.c = W.c /\ W2.peers = W.peers

\* C10: a non-forced handlePeerFail (the deadline firing, a live transport
\* closing) calls connectPeer again and emits nothing while the elapsed failure
\* time is at most MAX_FAIL_TIME, and emits failedConnection without calling
\* connectPeer when it is more.
Retries(W) == W.fx.connects = 1 /\ W.fx.failed = 0

Terminal(W) == W.fx.connects = 0 /\ W.fx.failed = 1

GraceOutcome(p, W) ==
  IF Elapsed(p) <= MAX_FAIL_TIME THEN Retries(W) ELSE Terminal(W)

C10_RetryWithinGraceWindow ==
  /\ DeadlineDue(Local)
     => GraceOutcome(Local, handlePeerFail(World(Local), Local, now, FALSE))
  /\ \A i \in Insts(Local) \ Garbage(Local) :
       MayClose(peers[Local][i])
       => GraceOutcome(Local, onClose(Closed(World(Local), i), Local, now, i))

C10_Witness ==
  /\ pingCount[Local] = 2
  /\ Len(peers[Local]) = 2
  /\ peers[Local][1].garbage
  /\ peers[Local][2].destroyed /\ ~peers[Local][2].garbage
  /\ Elapsed(Local) > MAX_FAIL_TIME
  /\ failedCount[Local] >= 1

\* C11: once lastFailure is set, no retry, deadline arming, deadline extension or
\* instance replacement changes the instant it records; only handlePeerSuccess
\* (the connect callback, ICE connected / completed) unsets it.  The clock moving
\* on leaves the recorded instant one tick further back.
C11_Succeeds ==
  \E i \in Insts(Local) :
    \/ ConnectStep(Local, i)
    \/ \E state \in {"connected", "completed"} : IceStep(Local, i, state)

C11_Kept ==
  connection[Local].lastFailure # Null
  => \/ connection'[Local].lastFailure = connection[Local].lastFailure
     \/ /\ Tick
        /\ connection'[Local].lastFailure = Earlier(connection[Local].lastFailure)
     \/ /\ connection'[Local].lastFailure = Null
        /\ C11_Succeeds

C11_LastFailureKept == [][C11_Kept]_vars

C11_Witness ==
  /\ Elapsed(Local) = MAX_CONNECT_TIME
  /\ pingCount[Local] = 2
  /\ Len(peers[Local]) = 2
  /\ failedCount[Local] = 0
  /\ connection[Local].timeout
  /\ connection[Local].timeoutEnd = now + MAX_CONNECT_TIME

\* C12: timeoutPeer(connection, delay) leaves the deadline at now + max(0, r, delay)
\* for the remaining time r of an armed deadline: never earlier than it was, at
\* least delay away, unchanged when delay < r; and one timer is pending after it.
Delays == {MAX_CONNECT_TIME, MAX_CONNECT_TIME_AFTER_ICE_DISCONNECT,
           MIN_MAX_CONNECT_TIME_AFTER_SIGNAL}

Remaining(p) == connection[p].timeoutEnd - now

C12_DeadlineNeverEarlier ==
  /\ \A delay \in Delays :
       LET W == timeoutPeer(World(Local), now, delay, "")
           r == Remaining(Local)
       IN /\ W.c.timeout
          /\ W.c.timeoutEnd >= now + delay
          /\ connection[Local].timeout
             => /\ r >= 0
                /\ W.c.timeoutEnd >= connection[Local].timeoutEnd
                /\ delay < r => W.c.timeoutEnd = connection[Local].timeoutEnd
                /\ delay >= r => W.c.timeoutEnd = now + delay
          /\ ~connection[Local].timeout => W.c.timeoutEnd = now + delay
          /\ W.timers = {W.c.timeoutEnd}
  /\ timers[Local] = IF connection[Local].timeout
                     THEN {connection[Local].timeoutEnd} ELSE {}

C12_Witness ==
  /\ connection[Local].timeout
  /\ Remaining(Local) = MAX_CONNECT_TIME - TickMs
  /\ connection[Local].timeoutMessage = "peer timed out after ice disconnect"
  /\ timers[Local] = {connection[Local].timeoutEnd}

\* C13: handlePeerSuccess, from the connect callback or ICE connected / completed,
\* leaves lastFailure unset and no deadline: timer cancelled, timeoutEnd 0,
\* message empty; and no timer is pending while no deadline is armed, so a
\* cancelled deadline cannot fire.
Successes(i) ==
  {onConnect(World(Local), i)}
  \cup {onIceStateChange(World(Local), Local, now, i, state) :
          state \in {"connected", "completed"}}

C13_SuccessClears ==
  /\ \A i \in Insts(Local) : \A W \in Successes(i) :
       /\ W.c.lastFailure = Null
       /\ ~W.c.timeout
       /\ W.c.timeoutEnd = 0
       /\ W.c.timeoutMessage = ""
       /\ W.timers = {}
       /\ W.fx.success = 1
       /\ W.fx.fails = 0
  /\ ~connection[Local].timeout => ~DeadlineDue(Local) /\ timers[Local] = {}

C13_Witness ==
  /\ pingCount[Local] = 1
  /\ connection[Local].pc = 1
  /\ connection[Local].lastFailure = Null
  /\ ~connection[Local].timeout
  /\ connection[Local].timeoutEnd = 0
  /\ timers[Local] = {}
  /\ pings[Local] # {}

\* C14: connectPeer, whatever connection.pc is (absent, live, destroyed, garbage),
\* issues one probe and leaves a deadline at least MAX_CONNECT_TIME away; the
\* previous instance ends garbage and destroyed; the active side holds a fresh
\* initiator, the non-active side broadcast one youStart to the remote, created
\* nothing and holds no live instance.
C14_ConnectPeerAnyState ==
  LET W == connectPeer(World(Local), Local, now)
      old == connection[Local].pc
      probe == [id |-> pingCount[Local], start |-> now, resolved |-> FALSE]
  IN /\ W.pingCount = pingCount[Local] + 1
     /\ probe \in W.pings
     /\ Cardinality({m \in W.out : m.type = "ping"}) = 1
     /\ \A m \in W.out :
          m.type = "ping" => m.data.id = probe.id /\ m.to = Remote
     /\ W.c.timeout
     /\ W.c.timeoutEnd >= now + MAX_CONNECT_TIME
     /\ W.timers = {W.c.timeoutEnd}
     /\ W.fx.failed = 0
     /\ old # Null => W.peers[old].garbage /\ W.peers[old].destroyed
     /\ IF Active(Local)
        THEN /\ Len(W.peers) = Len(peers[Local]) + 1
             /\ W.c.pc = Len(W.peers)
             /\ W.peers[W.c.pc] = NewPeer(TRUE)
             /\ \A i \in Insts(Local) : W.peers[i].garbage
             /\ YouStarts(W.out) = {}
        ELSE /\ Cardinality(YouStarts(W.out)) = 1
             /\ \A m \in YouStarts(W.out) :
                  m.to = Remote /\ m.yourConnId = myConnId[Remote]
             /\ Len(W.peers) = Len(peers[Local])
             /\ W.c.pc = old
             /\ \A i \in Insts(Local) : W.peers[i].garbage

C14_Witness ==
  /\ ~Active(Local)
  /\ pingCount[Local] = 2
  /\ connection[Local].pc = 1
  /\ ~peers[Local][1].initiator
  /\ peers[Local][1].garbage /\ peers[Local][1].destroyed
  /\ connection[Local].timeout
  /\ Remaining(Local) = MAX_CONNECT_TIME

\* C15: for a Connection that has not failed yet, the first non-forced failure
\* finds the failure window unset, starts it at the time of the failure and
\* retries.
\* No handlePeerFail has run on the side: each run either emits failedConnection
\* or re-enters connectPeer, which issues a second probe or retires the instance.
NoFailureYet(p) ==
  /\ pingCount[p] = 1
  /\ failedCount[p] = 0
  /\ Len(peers[p]) <= 1
  /\ \A i \in Insts(p) : ~peers[p][i].garbage

\* the non-forced failures the present state allows
NonForcedFailures(p) ==
  {handlePeerFail(Fired(World(p), e), p, now, FALSE) : e \in {x \in timers[p] : now >= x}}
  \cup {onClose(Closed(World(p), i), p, now, i) :
          i \in {k \in Insts(p) : ~peers[p][k].garbage /\ MayClose(peers[p][k])}}

\* as claimed: the first failure starts the window and retries
C15_FirstFailureStartsWindow ==
  NoFailureYet(Local)
  => \A W \in NonForcedFailures(Local) : Retries(W) /\ W.c.lastFailure = now

\* as the code has it: timeoutPeer starts the window when it arms a deadline on
\* a Connection whose lastFailure is unset, so an armed deadline always has a
\* window; a failure that finds lastFailure unset starts it and retries; the
\* first failure after an arming measures from the arming, and is terminal when
\* that is more than MAX_FAIL_TIME back.
C15_WindowOpensAtArming ==
  /\ connection[Local].timeout => connection[Local].lastFailure # Null
  /\ connection[Local].lastFailure = Null
     => /\ \A delay \in Delays :
             timeoutPeer(World(Local), now, delay, "").c.lastFailure = now
        /\ \A W \in NonForcedFailures(Local) :
             Retries(W) /\ W.c.lastFailure = now
  /\ (NoFailureYet(Local) /\ connection[Local].lastFailure # Null)
     => \A W \in NonForcedFailures(Local) :
          /\ W.c.lastFailure = connection[Local].lastFailure
          /\ GraceOutcome(Local, W)

C15_Witness ==
  /\ NoFailureYet(Local)
  /\ DeadlineDue(Local)
  /\ Elapsed(Local) > MAX_FAIL_TIME
  /\ pings[Local] = {}

\* C16: handleSignal with a youStart payload creates an initiator exactly when
\* the Connection has no instance; an instance that exists is left as it is; and
\* either way nothing is forwarded or broadcast, the deadline, the failure window
\* and the probes are untouched and connectPeer is not called.
YouStart == [NoData EXCEPT !.youStart = TRUE]

C16_YouStartOnlyFillsEmpty ==
  LET W == handleSignal(World(Local), Local, now, YouStart)
  IN /\ IF connection[Local].pc = Null
        THEN /\ W.fx.created = 1
             /\ W.peers = Append(peers[Local], NewPeer(TRUE))
             /\ W.c.pc = Len(W.peers)
        ELSE /\ W.fx.created = 0
             /\ W.peers = peers[Local]
             /\ W.c.pc = connection[Local].pc
     /\ W.c = [connection[Local] EXCEPT !.pc = W.c.pc]
     /\ W.timers = timers[Local]
     /\ W.pingCount = pingCount[Local]
     /\ W.pings = pings[Local]
     /\ W.out = {}
     /\ W.fx = [NoFx EXCEPT !.created = W.fx.created]

C16_Witness ==
  /\ Active(Local)
  /\ pingCount[Local] = 0
  /\ connection[Local].pc = 1
  /\ peers[Local] = <<NewPeer(TRUE)>>
  /\ ~connection[Local].timeout

\* C17: a negotiation payload that finds no instance, or a destroyed one, and is
\* not a first payload on the non-active side, does what one call of connectPeer
\* does and nothing else: nothing is forwarded, no failedConnection is emitted.
Invalid(p) ==
  connection[p].pc = Null \/ peers[p][connection[p].pc].destroyed

C17_InvalidStateReconnects ==
  \A data \in RemoteData(Local) :
    (~data.youStart /\ Invalid(Local) /\ ~(data.first /\ ~Active(Local)))
    => LET W == handleSignal(World(Local), Local, now, data)
       IN /\ W = connectPeer(World(Local), Local, now)
          /\ W.fx = [NoFx EXCEPT !.connects = 1,
                                 !.created = IF Active(Local) THEN 1 ELSE 0]

C17_Witness ==
  /\ ~Active(Local)
  /\ pingCount[Local] = 2
  /\ connection[Local].pc = 1
  /\ Len(peers[Local]) = 1
  /\ peers[Local][1].destroyed
  /\ \E data \in RemoteData(Local) : ~data.youStart /\ ~data.first

\* C18: when handleSignal forwards a payload to the transport, an armed deadline
\* ends at least MIN_MAX_CONNECT_TIME_AFTER_SIGNAL away and no earlier than it
\* was, no deadline is created where none was armed, and a first payload that
\* created the receiver leaves the deadline exactly as it was.
C18_ForwardExtendsOnlyArmed ==
  \A data \in RemoteData(Local) :
    LET W == handleSignal(World(Local), Local, now, data)
        c == connection[Local]
    IN W.fx.forwarded = 1
       => /\ W.c.lastFailure = c.lastFailure
          /\ W.c.timeoutMessage = c.timeoutMessage
          /\ IF (data.first /\ ~Active(Local)) \/ ~c.timeout
             THEN /\ W.c.timeout = c.timeout
                  /\ W.c.timeoutEnd = c.timeoutEnd
                  /\ W.timers = timers[Local]
             ELSE /\ W.c.timeout
                  /\ W.c.timeoutEnd >= now + MIN_MAX_CONNECT_TIME_AFTER_SIGNAL
                  /\ W.c.timeoutEnd >= c.timeoutEnd
                  /\ W.timers = {W.c.timeoutEnd}

C18_Witness ==
  /\ Active(Local)
  /\ connection[Local].timeout
  /\ Remaining(Local) = MIN_MAX_CONNECT_TIME_AFTER_SIGNAL
  /\ Elapsed(Local) = MAX_CONNECT_TIME + TickMs
  /\ pingCount[Local] = 1
  /\ peers[Local][connection[Local].pc].from # 0
  /\ ~peers[Local][connection[Local].pc].destroyed

\* C19: the signal callback of an instance broadcasts one signal message to the
\* remote (its peerId, yourConnId its connId) with the instance's id as from;
\* the message carries first and the state snapshot exactly when the instance
\* has not signalled before, and the instance's didSignal, once set, stays set.
Signals(out) == {m \in out : m.type = "signal" /\ ~m.data.youStart}

C19_SignalShape ==
  \A p \in Sides : \A i \in Insts(p) :
    LET W == onSignal(World(p), p, i)
    IN /\ Cardinality(W.out) = 1
       /\ \A m \in W.out :
            /\ m \in Signals(W.out)
            /\ m.to = Other(p)
            /\ m.yourConnId = myConnId[Other(p)]
            /\ m.data.from = i
            /\ m.data.first = ~peers[p][i].didSignal
            /\ m.state = ~peers[p][i].didSignal
       /\ W.peers[i].didSignal
       /\ W.c = connection[p]

\* a signal in flight is of an instance that has signalled
C19_InFlight ==
  \A m \in Signals(hub) :
    /\ m.state = m.data.first
    /\ m.data.from \in Insts(Other(m.to))
    /\ peers[Other(m.to)][m.data.from].didSignal

\* didSignal is set by the signal callback and never reset; a first signal enters
\* the hub only in the step that sets it
C19_Once ==
  \A p \in Sides : \A i \in Insts(p) :
    /\ peers[p][i].didSignal => peers'[p][i].didSignal
    /\ (\E m \in Signals(hub') \ Signals(hub) :
          m.to = Other(p) /\ m.data.from = i /\ m.data.first)
       => ~peers[p][i].didSignal /\ peers'[p][i].didSignal

C19_FirstSignalOnce ==
  /\ [](C19_SignalShape /\ C19_InFlight)
  /\ [][C19_Once]_vars

C19_Witness ==
  \E p \in Sides :
    /\ Len(peers[p]) = 1
    /\ peers[p][1].didSignal
    /\ \E m \in Signals(hub) : m.to = Other(p) /\ m.data.from = 1 /\ m.data.first
    /\ \E m \in Signals(hub) : m.to = Other(p) /\ m.data.from = 1 /\ ~m.data.first

\* C20: after connectPeer was called on a Connection, with timers firing when due
\* and finitely many inbound signals, the Connection eventually reports success
\* (lastFailure unset again) or emits failedConnection.
Started == pingCount[Local] > 0

Succeeded == connection[Local].lastFailure = Null

Failed == failedCount[Local] > 0

C20_EventuallySettles == Started ~> (Succeeded \/ Failed)

\* the deadline fired three times into a retry and the fourth firing was terminal
C20_Witness ==
  /\ Failed
  /\ pingCount[Local] = 4
  /\ pings[Local] = {}
  /\ Elapsed(Local) > MAX_FAIL_TIME
  /\ ~connection[Local].timeout

====
